---- MODULE Spec2Model ----
(***************************************************************************)
(* typed_sqlx_client: the CrudOpsRef derive macro (statement generation    *)
(* for mysql / postgres / sqlite) and the operations it generates, run     *)
(* against a table of the wrapped driver.                                  *)
(*                                                                         *)
(* SQL text is a sequence of text pieces (Concat gives the string); a      *)
(* placeholder is always one piece, as in the format! calls of the macro.  *)
(***************************************************************************)
EXTENDS Integers, Sequences, FiniteSets, TLC

VARIABLES input, pc, gen, table, last, batch, driver, handles, pools, dropped,
          other

vars == <<input, pc, gen, table, last, batch, driver, handles, pools, dropped,
          other>>

(***************************************************************************)
(* Bounds of the model.                                                    *)
(***************************************************************************)
MaxFields == 3
MaxTypedFields == 2
MaxKey == 2
MaxBatch == 2
MaxHandles == 4

None == "<None>"

(***************************************************************************)
(* Sequence helpers.                                                       *)
(***************************************************************************)
RECURSIVE Concat(_)
Concat(pieces) ==
    IF pieces = <<>> THEN "" ELSE Head(pieces) \o Concat(Tail(pieces))

RECURSIVE JoinPieces(_, _)
\* [a, b, c].join(sep) over sequences of pieces
JoinPieces(seqs, sep) ==
    IF seqs = <<>> THEN <<>>
    ELSE IF Len(seqs) = 1 THEN Head(seqs)
    ELSE Head(seqs) \o <<sep>> \o JoinPieces(Tail(seqs), sep)

RECURSIVE FilterSeq(_, _)
\* the subsequence of s at the positions in keep, in order
FilterSeq(s, keep) ==
    IF s = <<>> THEN <<>>
    ELSE LET n == Len(s)
             front == FilterSeq(SubSeq(s, 1, n - 1), keep)
         IN IF n \in keep THEN Append(front, s[n]) ELSE front

(***************************************************************************)
(* syn data: attributes, metas, types.                                     *)
(***************************************************************************)
MetaPath(name) == [kind |-> "Path", name |-> name, value |-> None]
MetaNameValue(name, value) == [kind |-> "NameValue", name |-> name, value |-> value]
Attr(path, metas) == [path |-> path, metas |-> metas]

TyPath(segs) == [kind |-> "Path", segs |-> segs]
Seg(ident, args) == [ident |-> ident, args |-> args]
TyPlain(name) == TyPath(<<Seg(name, <<>>)>>)
TyOption(t) == TyPath(<<Seg("Option", <<t>>)>>)
TyStdOption(t) == TyPath(<<Seg("std", <<>>), Seg("option", <<>>), Seg("Option", <<t>>)>>)
TyVec(t) == TyPath(<<Seg("Vec", <<t>>)>>)
TyArray == [kind |-> "Array", segs |-> <<>>]

\* str::contains("primary_key") on the strings that occur in attributes
ContainsPrimaryKey(s) == s \in {"primary_key", "primary_key_ref"}

\* the positions <<i, j>> of the name = "literal" metas called key inside
\* #[crud(...)] attributes, and the first of them in source order
NameValuePositions(attrs, key) ==
    UNION {{<<i, j>> : j \in {k \in 1..Len(attrs[i].metas) :
                                /\ attrs[i].path = "crud"
                                /\ attrs[i].metas[k].kind = "NameValue"
                                /\ attrs[i].metas[k].name = key}}
           : i \in 1..Len(attrs)}

FirstPosition(ps) ==
    CHOOSE p \in ps : \A q \in ps : p[1] < q[1] \/ (p[1] = q[1] /\ p[2] <= q[2])

parse_db_type_any_case(attrs) ==
    LET ps == NameValuePositions(attrs, "db")
    IN IF ps = {} THEN "mysql"
       ELSE LET p == FirstPosition(ps)
                v == attrs[p[1]].metas[p[2]].value
            IN IF v = "Postgres" THEN "postgres" ELSE v

parse_db_type(attrs) ==
    LET ps == NameValuePositions(attrs, "db")
    IN IF ps = {} THEN "mysql"
       ELSE LET p == FirstPosition(ps) IN attrs[p[1]].metas[p[2]].value

get_crud_rename(attrs) ==
    LET ps == NameValuePositions(attrs, "rename")
    IN IF ps = {} THEN None
       ELSE LET p == FirstPosition(ps) IN attrs[p[1]].metas[p[2]].value

parse_table_name_default(attrs, default) == default

parse_table_name(attrs, default) ==
    LET ps == NameValuePositions(attrs, "table")
    IN IF ps = {} THEN default
       ELSE LET p == FirstPosition(ps) IN attrs[p[1]].metas[p[2]].value

\* meta_list.tokens.to_string().contains("primary_key")
has_primary_key_attr(attrs) ==
    \E i \in 1..Len(attrs) :
        /\ attrs[i].path = "crud"
        /\ \E j \in 1..Len(attrs[i].metas) :
              \/ ContainsPrimaryKey(attrs[i].metas[j].name)
              \/ ContainsPrimaryKey(attrs[i].metas[j].value)

extract_option_inner_type_once(ty) ==
    IF /\ ty.kind = "Path"
       /\ Len(ty.segs) > 0
       /\ ty.segs[1].ident = "Option"
       /\ Len(ty.segs[1].args) > 0
    THEN ty.segs[1].args[1]
    ELSE ty

RECURSIVE extract_option_inner_type_deep(_)
extract_option_inner_type_deep(ty) ==
    IF /\ ty.kind = "Path"
       /\ Len(ty.segs) > 0
       /\ ty.segs[1].ident = "Option"
       /\ Len(ty.segs[1].args) > 0
    THEN extract_option_inner_type_deep(ty.segs[1].args[1])
    ELSE ty

(***************************************************************************)
(* derive_crud_ops_ref: the expansion of #[derive(CrudOpsRef)].            *)
(***************************************************************************)
FieldColumn(f) ==
    IF get_crud_rename(f.attrs) = None THEN f.ident ELSE get_crud_rename(f.attrs)

\* the index of the first field marked as primary key, 0 if none is
FirstMarked(fields) ==
    LET marked == {i \in 1..Len(fields) : has_primary_key_attr(fields[i].attrs)}
    IN IF marked = {} THEN 0 ELSE CHOOSE i \in marked : \A j \in marked : i <= j

PrimaryKeyIndex(fields) ==
    IF FirstMarked(fields) = 0 THEN 1 ELSE FirstMarked(fields)

primary_key_field(fields) == fields[PrimaryKeyIndex(fields)].ident

primary_key_type(fields) ==
    extract_option_inner_type_deep(fields[PrimaryKeyIndex(fields)].ty)

field_idents(fields) == [i \in 1..Len(fields) |-> fields[i].ident]

field_names_ignore_rename(fields) == [i \in 1..Len(fields) |-> fields[i].ident]

field_names(fields) == [i \in 1..Len(fields) |-> FieldColumn(fields[i])]

NonPkPositions(fields) ==
    {i \in 1..Len(fields) : fields[i].ident # primary_key_field(fields)}

non_pk_idents(fields) == FilterSeq(field_idents(fields), NonPkPositions(fields))

non_pk_names(fields) == FilterSeq(field_names(fields), NonPkPositions(fields))

\* format!("${}", i)
PgPlaceholder(i) == "$" \o ToString(i)

pg_placeholders_zero_based(names) == [i \in 1..Len(names) |-> PgPlaceholder(i - 1)]

pg_placeholders(names) == [i \in 1..Len(names) |-> PgPlaceholder(i)]

pg_set_sql_zero_based(names) ==
    JoinPieces([i \in 1..Len(names) |-> <<names[i], " = ", PgPlaceholder(i - 1)>>], ", ")

pg_set_sql(names) ==
    JoinPieces([i \in 1..Len(names) |-> <<names[i], " = ", PgPlaceholder(i)>>], ", ")

update_pk_index_off_by_one(names) == Len(names)

update_pk_index(names) == Len(names) + 1

placeholders(names) == [i \in 1..Len(names) |-> "?"]

set_sql(names) ==
    JoinPieces([i \in 1..Len(names) |-> <<names[i], " = ", "?">>], ", ")

derive_crud_ops_ref(di) ==
    LET fields == di.fields
        db_type == parse_db_type(di.attrs)
        common == [struct_name |-> di.ident,
                   table_name |-> parse_table_name(di.attrs, di.ident),
                   primary_key_field |-> primary_key_field(fields),
                   primary_key_type |-> primary_key_type(fields),
                   field_idents |-> field_idents(fields),
                   field_names |-> field_names(fields),
                   non_pk_idents |-> non_pk_idents(fields),
                   non_pk_names |-> non_pk_names(fields)]
        pg == [backend |-> "Postgres",
               placeholders |-> pg_placeholders(field_names(fields)),
               set_sql |-> pg_set_sql(non_pk_names(fields)),
               key_placeholder |-> "$1",
               update_key_placeholder |->
                   PgPlaceholder(update_pk_index(non_pk_names(fields)))]
        qm(backend) ==
              [backend |-> backend,
               placeholders |-> placeholders(field_names(fields)),
               set_sql |-> set_sql(non_pk_names(fields)),
               key_placeholder |-> "?",
               update_key_placeholder |-> "?"]
        branch == IF db_type = "postgres" THEN pg
                  ELSE IF db_type = "sqlite" THEN qm("Sqlite")
                  ELSE qm("MySql")
    IN common @@ branch

(***************************************************************************)
(* The statements and the parameter lists of the generated operations.     *)
(***************************************************************************)
delete_by_id_sql(g) ==
    <<"DELETE FROM ", g.table_name, " WHERE ", g.primary_key_field, " = ",
      g.key_placeholder>>

get_by_id_sql(g) ==
    <<"SELECT * FROM ", g.table_name, " WHERE ", g.primary_key_field, " = ",
      g.key_placeholder>>

insert_sql(g) ==
    <<"INSERT INTO ", g.table_name, " (">>
    \o JoinPieces([i \in 1..Len(g.field_names) |-> <<g.field_names[i]>>], ", ")
    \o <<") VALUES (">>
    \o JoinPieces([i \in 1..Len(g.placeholders) |-> <<g.placeholders[i]>>], ", ")
    \o <<")">>

update_by_id_sql(g) ==
    <<"UPDATE ", g.table_name, " SET ">> \o g.set_sql
    \o <<" WHERE ", g.primary_key_field, " = ", g.update_key_placeholder>>

insert_batch_sql(g) == insert_sql(g)

insert_binds_skip_key(g, entity) ==
    [i \in 1..Len(g.non_pk_idents) |-> entity[g.non_pk_idents[i]]]

insert_binds(g, entity) ==
    [i \in 1..Len(g.field_idents) |-> entity[g.field_idents[i]]]

update_by_id_binds(g, id, entity) ==
    [i \in 1..Len(g.non_pk_idents) |-> entity[g.non_pk_idents[i]]] \o <<id>>

key_binds(id) == <<id>>

(***************************************************************************)
(* Record declarations handed to the derive macro.                         *)
(***************************************************************************)
FieldIdents == <<"id", "name", "email", "age", "note">>

ColumnFor(ident) ==
    CASE ident = "id" -> "user_id"
      [] ident = "name" -> "user_name"
      [] ident = "email" -> "email_address"
      [] ident = "age" -> "user_age"
      [] OTHER -> "user_note"

TypeFor(ident) ==
    CASE ident = "id" -> TyOption(TyPlain("i64"))
      [] ident = "age" -> TyOption(TyPlain("i32"))
      [] OTHER -> TyPlain("String")

\* the attribute lists a field is declared with
FieldAttrChoices(ident) ==
    { <<>>,
      <<Attr("crud", <<MetaPath("primary_key")>>)>>,
      <<Attr("crud", <<MetaNameValue("rename", ColumnFor(ident))>>)>>,
      <<Attr("crud", <<MetaPath("primary_key"),
                       MetaNameValue("rename", ColumnFor(ident))>>)>>,
      <<Attr("crud", <<MetaNameValue("rename", "primary_key_ref")>>)>>,
      <<Attr("sqlx", <<MetaNameValue("rename", "sqlx_col")>>)>> }

KeyAttrChoices ==
    { <<>>, <<Attr("crud", <<MetaPath("primary_key")>>)>> }

KeyTypes ==
    { TyPlain("i64"),
      TyOption(TyPlain("i64")),
      TyOption(TyOption(TyPlain("i64"))),
      TyStdOption(TyPlain("i64")),
      TyVec(TyPlain("u8")),
      TyArray }

TableChoices == {None, "users"}
DbChoices == {None, "mysql", "postgres", "sqlite", "Postgres"}
\* a selector value that names no dialect of the generator
StructChoices == (TableChoices \X DbChoices) \cup {<<"users", "oracle">>}

StructAttrs(tbl, db) ==
    LET metas == (IF tbl = None THEN <<>> ELSE <<MetaNameValue("table", tbl)>>)
                 \o (IF db = None THEN <<>> ELSE <<MetaNameValue("db", db)>>)
    IN IF metas = <<>> THEN <<>> ELSE <<Attr("crud", metas)>>

\* field lists of n fields named FieldIdents[1..n], attributes varying
AttrFieldLists(n) ==
    { [i \in 1..n |-> [ident |-> FieldIdents[i], attrs |-> a[i],
                       ty |-> TypeFor(FieldIdents[i])]] :
        a \in {f \in [1..n -> UNION {FieldAttrChoices(FieldIdents[i]) : i \in 1..n}] :
                  \A i \in 1..n : f[i] \in FieldAttrChoices(FieldIdents[i])} }

\* field lists of n fields, declared types varying
TypeFieldLists(n) ==
    { [i \in 1..n |-> [ident |-> FieldIdents[i], attrs |-> c[i][1], ty |-> c[i][2]]] :
        c \in [1..n -> KeyAttrChoices \X KeyTypes] }

Decls ==
    { [ident |-> "User", attrs |-> StructAttrs(c[1], c[2]), fields |-> fl] :
        c \in StructChoices,
        fl \in UNION {AttrFieldLists(n) : n \in 0..MaxFields} }
    \cup
    { [ident |-> "User", attrs |-> StructAttrs("users", "postgres"), fields |-> fl] :
        fl \in UNION {TypeFieldLists(n) : n \in 1..MaxTypedFields} }

NoGen == [backend |-> None]
NoCall == [op |-> None]
NoBatch == [active |-> FALSE]
\* no pool has been connected, no handle dropped
Unconnected == [state |-> "unconnected", strong |-> 0]
RawPools == {"pool 1", "pool 2"}
NoPools == [p \in RawPools |-> Unconnected]

(***************************************************************************)
(* Macro expansion.                                                        *)
(***************************************************************************)
Expand ==
    /\ pc = "input"
    /\ IF Len(input.fields) = 0
       THEN /\ pc' = "panic"       \* .expect("Struct must have at least one field")
            /\ gen' = NoGen
       ELSE /\ pc' = "expanded"
            /\ gen' = derive_crud_ops_ref(input)
    /\ UNCHANGED <<input, table, last, batch, driver, handles, pools, dropped, other>>

Init ==
    /\ input \in Decls
    /\ pc = "input"
    /\ gen = NoGen
    /\ table = <<>>
    /\ last = NoCall
    /\ batch = NoBatch
    /\ driver = <<>>
    /\ handles = <<>>
    /\ pools = NoPools
    /\ dropped = {}
    /\ other = NoBatch

Next == Expand

Spec == Init /\ [][Next]_vars

(***************************************************************************)
(* Reading a declaration directly, for the statement of the properties.    *)
(***************************************************************************)
Expanded == pc = "expanded"

NumFields == Len(input.fields)

\* the values given to key in the #[crud(...)] attributes of attrs
DeclaredValues(attrs, key) ==
    {m.value : m \in {x \in UNION {{attrs[i].metas[j] : j \in 1..Len(attrs[i].metas)}
                                   : i \in {h \in 1..Len(attrs) : attrs[h].path = "crud"}} :
                         x.kind = "NameValue" /\ x.name = key}}

DeclaredColumn(f) ==
    IF DeclaredValues(f.attrs, "rename") = {} THEN f.ident
    ELSE CHOOSE v \in DeclaredValues(f.attrs, "rename") : TRUE

DeclaredTable(di) ==
    IF DeclaredValues(di.attrs, "table") = {} THEN di.ident
    ELSE CHOOSE v \in DeclaredValues(di.attrs, "table") : TRUE

DeclaredDb(di) ==
    IF DeclaredValues(di.attrs, "db") = {} THEN None
    ELSE CHOOSE v \in DeclaredValues(di.attrs, "db") : TRUE

\* the field carries the primary_key flag itself
HasPrimaryKeyFlag(f) ==
    \E i \in 1..Len(f.attrs) :
        /\ f.attrs[i].path = "crud"
        /\ \E j \in 1..Len(f.attrs[i].metas) :
              f.attrs[i].metas[j] = MetaPath("primary_key")

BindVals == {None, "7", "Alice"}

\* an entity whose field values are pairwise different, and the same entity
\* with its key field set to v
Distinct == [x \in {input.fields[i].ident : i \in 1..NumFields} |-> "value of " \o x]
DistinctWithKey(v) == [Distinct EXCEPT ![gen.primary_key_field] = v]

DialectPlaceholder(di, j) ==
    IF DeclaredDb(di) = "postgres" THEN PgPlaceholder(j) ELSE "?"

\* the positions of the fields other than the generated key field
NonKeyFields ==
    FilterSeq(input.fields,
              {i \in 1..NumFields : input.fields[i].ident # gen.primary_key_field})

(***************************************************************************)
(* The database behind the pool: one table, created for the record as in   *)
(* examples/postgres_crud.rs (a column per field, named by its rename,     *)
(* the declared key column PRIMARY KEY).  A row maps columns to values.    *)
(***************************************************************************)
Keys == {ToString(i) : i \in 1..MaxKey}
Texts == {"a", "b"}

DeclaredKeyIndex(di) ==
    LET flagged == {i \in 1..Len(di.fields) : HasPrimaryKeyFlag(di.fields[i])}
    IN IF flagged = {} THEN 1 ELSE CHOOSE i \in flagged : \A j \in flagged : i <= j

DbTable == DeclaredTable(input)
DbColumns == {DeclaredColumn(input.fields[i]) : i \in 1..NumFields}
DbKeyColumn == DeclaredColumn(input.fields[DeclaredKeyIndex(input)])

Ok(v) == [ok |-> TRUE, value |-> v, err |-> None]
Err(e) == [ok |-> FALSE, value |-> <<>>, err |-> e]
Unit == <<>>
NotFound == <<>>
Found(entity) == <<entity>>

KeysUnique(tbl) ==
    \A i, j \in 1..Len(tbl) : tbl[i][DbKeyColumn] = tbl[j][DbKeyColumn] => i = j

\* the statement names the table, and only columns the table has
KnownNames(sql, cols) == sql[2] = DbTable /\ \A i \in 1..Len(cols) : cols[i] \in DbColumns

NumPlaceholders(sql) ==
    Cardinality({i \in 1..Len(sql) :
        sql[i] = "?" \/ \E j \in 1..Len(sql) : sql[i] = PgPlaceholder(j)})

\* INSERT INTO t (c1, ..) VALUES (p1, ..)
DbInsert(tbl, sql, binds) ==
    LET n == (Len(sql) - 3) \div 4
        cols == [i \in 1..n |-> sql[2 + 2 * i]]
        row == [c \in DbColumns |->
                   IF \E i \in 1..n : cols[i] = c
                   THEN binds[CHOOSE i \in 1..n : cols[i] = c]
                   ELSE None]
    IN IF ~KnownNames(sql, cols) THEN [result |-> Err("ColumnNotFound"), table |-> tbl]
       ELSE IF NumPlaceholders(sql) # Len(binds)
            THEN [result |-> Err("ArgumentCount"), table |-> tbl]
       ELSE IF row[DbKeyColumn] = None
            THEN [result |-> Err("NotNullViolation"), table |-> tbl]
       ELSE IF ~KeysUnique(Append(tbl, row))
            THEN [result |-> Err("UniqueViolation"), table |-> tbl]
       ELSE [result |-> Ok(Unit), table |-> Append(tbl, row)]

\* SELECT * FROM t WHERE c = p, fetch_optional: the first matching row
DbSelectOptional(tbl, sql, binds) ==
    LET col == sql[Len(sql) - 2]
        hits == {i \in 1..Len(tbl) : tbl[i][col] = binds[1]}
    IN IF ~KnownNames(sql, <<col>>) THEN Err("ColumnNotFound")
       ELSE IF NumPlaceholders(sql) # Len(binds) THEN Err("ArgumentCount")
       ELSE IF hits = {} THEN Ok(NotFound)
       ELSE Ok(Found(tbl[CHOOSE i \in hits : \A j \in hits : i <= j]))

\* UPDATE t SET c1 = p1, .. WHERE c = p
DbUpdate(tbl, sql, binds) ==
    LET k == IF Len(sql) = 7 THEN 0 ELSE (Len(sql) - 6) \div 4
        cols == [i \in 1..k |-> sql[4 * i]]
        col == sql[Len(sql) - 2]
        changed(row) ==
            [c \in DbColumns |->
                IF \E i \in 1..k : cols[i] = c
                THEN binds[CHOOSE i \in 1..k : cols[i] = c]
                ELSE row[c]]
        after == [i \in 1..Len(tbl) |->
                     IF tbl[i][col] = binds[k + 1] THEN changed(tbl[i]) ELSE tbl[i]]
    IN IF k = 0 THEN [result |-> Err("SyntaxError"), table |-> tbl]
       ELSE IF ~KnownNames(sql, Append(cols, col))
            THEN [result |-> Err("ColumnNotFound"), table |-> tbl]
       ELSE IF NumPlaceholders(sql) # Len(binds)
            THEN [result |-> Err("ArgumentCount"), table |-> tbl]
       ELSE IF \E i \in 1..Len(after) : after[i][DbKeyColumn] = None
            THEN [result |-> Err("NotNullViolation"), table |-> tbl]
       ELSE IF ~KeysUnique(after)
            THEN [result |-> Err("UniqueViolation"), table |-> tbl]
       ELSE [result |-> Ok(Unit), table |-> after]

\* DELETE FROM t WHERE c = p
DbDelete(tbl, sql, binds) ==
    LET col == sql[Len(sql) - 2]
    IN IF ~KnownNames(sql, <<col>>)
       THEN [result |-> Err("ColumnNotFound"), table |-> tbl]
       ELSE IF NumPlaceholders(sql) # Len(binds)
            THEN [result |-> Err("ArgumentCount"), table |-> tbl]
       ELSE [result |-> Ok(Unit),
             table |-> FilterSeq(tbl, {i \in 1..Len(tbl) : tbl[i][col] # binds[1]})]

\* sqlx::FromRow of the record: every field from its column
FromRow(row) ==
    [x \in {input.fields[i].ident : i \in 1..NumFields} |->
        row[DeclaredColumn(input.fields[CHOOSE i \in 1..NumFields :
                                            input.fields[i].ident = x])]]

(***************************************************************************)
(* The generated operations, called on a table handle.  A driver call may  *)
(* also fail for a reason of its own (io): the pool timed out.  last is    *)
(* the call that returned in the latest step (NoCall when none did) and    *)
(* driver the calls it made to the driver, in order, with their outcomes.  *)
(***************************************************************************)
FieldValues(f) ==
    IF f.ty = TyPlain("String") THEN Texts
    ELSE IF f.ty = TyPlain("i64") THEN Keys
    ELSE Keys \cup {None}

RunEntities ==
    {e \in [{input.fields[i].ident : i \in 1..NumFields} -> Keys \cup Texts \cup {None}] :
        \A i \in 1..NumFields : e[input.fields[i].ident] \in FieldValues(input.fields[i])}

Call(op, id, io, result, before) ==
    [op |-> op, id |-> id, io |-> io, result |-> result, before |-> before]

DriverCall(kind, sql, binds, result) ==
    [kind |-> kind, sql |-> sql, binds |-> binds, result |-> result]

PoolTimedOut == Err("PoolTimedOut")

\* `.await?` on a driver result: the operation returns now
try_returns_never(result) == FALSE

try_returns(result) == ~result.ok

insert(entity) ==
    /\ pc = "expanded"
    /\ \E io \in BOOLEAN :
          LET sql == insert_sql(gen)
              binds == insert_binds(gen, entity)
              r == IF io THEN [result |-> PoolTimedOut, table |-> table]
                   ELSE DbInsert(table, sql, binds)
          IN /\ table' = r.table
             /\ last' = Call("insert", None, io, r.result, table)
                          @@ [entity |-> entity]
             /\ driver' = <<DriverCall("execute", sql, binds, r.result)>>
    /\ UNCHANGED <<input, pc, gen, batch, handles, pools, dropped, other>>

get_by_id(id) ==
    /\ pc = "expanded"
    /\ \E io \in BOOLEAN :
          LET sql == get_by_id_sql(gen)
              r == IF io THEN PoolTimedOut
                   ELSE DbSelectOptional(table, sql, key_binds(id))
              result == IF r.ok /\ r.value # NotFound
                        THEN Ok(Found(FromRow(r.value[1])))
                        ELSE r
          IN /\ last' = Call("get_by_id", id, io, result, table)
             /\ driver' = <<DriverCall("fetch_optional", sql, key_binds(id), r)>>
    /\ UNCHANGED <<input, pc, gen, table, batch, handles, pools, dropped, other>>

update_by_id(id, entity) ==
    /\ pc = "expanded"
    /\ \E io \in BOOLEAN :
          LET sql == update_by_id_sql(gen)
              binds == update_by_id_binds(gen, id, entity)
              r == IF io THEN [result |-> PoolTimedOut, table |-> table]
                   ELSE DbUpdate(table, sql, binds)
          IN /\ table' = r.table
             /\ last' = Call("update_by_id", id, io, r.result, table)
                          @@ [entity |-> entity]
             /\ driver' = <<DriverCall("execute", sql, binds, r.result)>>
    /\ UNCHANGED <<input, pc, gen, batch, handles, pools, dropped, other>>

delete_by_id(id) ==
    /\ pc = "expanded"
    /\ \E io \in BOOLEAN :
          LET sql == delete_by_id_sql(gen)
              r == IF io THEN [result |-> PoolTimedOut, table |-> table]
                   ELSE DbDelete(table, sql, key_binds(id))
          IN /\ table' = r.table
             /\ last' = Call("delete_by_id", id, io, r.result, table)
             /\ driver' = <<DriverCall("execute", sql, key_binds(id), r.result)>>
    /\ UNCHANGED <<input, pc, gen, batch, handles, pools, dropped, other>>

(***************************************************************************)
(* insert_batch: the call builds the column and placeholder lists; every   *)
(* turn of `for entity in entities` awaits one INSERT, and operations of   *)
(* other handles may run at each await.  batch is the call in progress.    *)
(***************************************************************************)
BatchEntities ==
    {e \in RunEntities :
        \A i \in (1..NumFields) \ {DeclaredKeyIndex(input)} :
            e[input.fields[i].ident] =
                IF input.fields[i].ty = TyPlain("String") THEN "a" ELSE "1"}

BatchSlices ==
    UNION {[1..n -> BatchEntities] : n \in 0..MaxBatch}

BatchCall(entities, io, result, before) ==
    Call("insert_batch", None, io, result, before) @@ [entities |-> entities]

\* `for entity in entities`: the entity of the turn
next_entity_reversed(b) == b.entities[Len(b.entities) + 1 - b.next]

next_entity(b) == b.entities[b.next]

batch_begin_at_second(entities) ==
    [active |-> TRUE, entities |-> entities, next |-> 2, calls |-> <<>>]

\* the call as it starts: nothing issued yet
batch_begin(entities) ==
    [active |-> TRUE, entities |-> entities, next |-> 1, calls |-> <<>>]

\* the call b up to its next await or to its return, on the table tbl:
\* the call as it is afterwards, the table, and the result if it returned
batch_turn(b, tbl, io) ==
    IF b.next > Len(b.entities)
    THEN [batch |-> NoBatch, table |-> tbl, returned |-> TRUE,
          last |-> BatchCall(b.entities, FALSE, Ok(Unit), tbl), driver |-> b.calls]
    ELSE LET sql == insert_sql(gen)
             binds == insert_binds(gen, next_entity(b))
             r == IF io THEN [result |-> PoolTimedOut, table |-> tbl]
                  ELSE DbInsert(tbl, sql, binds)
             calls == Append(b.calls, DriverCall("execute", sql, binds, r.result))
         IN IF try_returns(r.result)
            THEN [batch |-> NoBatch, table |-> r.table, returned |-> TRUE,
                  last |-> BatchCall(b.entities, io, r.result, tbl), driver |-> calls]
            ELSE [batch |-> [b EXCEPT !.next = @ + 1, !.calls = calls],
                  table |-> r.table, returned |-> FALSE,
                  last |-> NoCall, driver |-> <<>>]

insert_batch(entities) ==
    /\ pc = "expanded"
    /\ ~batch.active
    /\ batch' = batch_begin(entities)
    /\ last' = NoCall
    /\ driver' = <<>>
    /\ UNCHANGED <<input, pc, gen, table, handles, pools, dropped, other>>

insert_batch_resume ==
    /\ batch.active
    /\ \E io \in (IF batch.next > Len(batch.entities) THEN {FALSE} ELSE BOOLEAN) :
          \E t \in {batch_turn(batch, table, io)} :
             /\ batch' = t.batch
             /\ table' = t.table
             /\ last' = t.last
             /\ driver' = t.driver
    /\ UNCHANGED <<input, pc, gen, handles, pools, dropped, other>>

\* insert_batch called on another handle of the same pool; other is that
\* call in progress
other_insert_batch(entities) ==
    /\ pc = "expanded"
    /\ ~other.active
    /\ other' = batch_begin(entities)
    /\ last' = NoCall
    /\ driver' = <<>>
    /\ UNCHANGED <<input, pc, gen, table, handles, pools, dropped, batch>>

other_insert_batch_resume ==
    /\ other.active
    /\ \E io \in (IF other.next > Len(other.entities) THEN {FALSE} ELSE BOOLEAN) :
          \E t \in {batch_turn(other, table, io)} :
             /\ other' = t.batch
             /\ table' = t.table
             /\ last' = t.last @@ [handle |-> "other"]
             /\ driver' = t.driver
    /\ UNCHANGED <<input, pc, gen, handles, pools, dropped, batch>>

(***************************************************************************)
(* SelectOnlyQuery.  A query text is a sequence of characters.             *)
(***************************************************************************)
Upper == <<"A", "B", "C", "D", "E", "F", "G", "H", "I", "J", "K", "L", "M",
           "N", "O", "P", "Q", "R", "S", "T", "U", "V", "W", "X", "Y", "Z">>
Lower == <<"a", "b", "c", "d", "e", "f", "g", "h", "i", "j", "k", "l", "m",
           "n", "o", "p", "q", "r", "s", "t", "u", "v", "w", "x", "y", "z">>

is_whitespace(c) == c \in {" ", "\t", "\n", "\r"}

char_to_lowercase(c) ==
    IF \E i \in 1..Len(Upper) : Upper[i] = c
    THEN Lower[CHOOSE i \in 1..Len(Upper) : Upper[i] = c]
    ELSE c

RECURSIVE trim_start(_)
trim_start(s) ==
    IF s # <<>> /\ is_whitespace(Head(s)) THEN trim_start(Tail(s)) ELSE s

RECURSIVE trim_end(_)
trim_end(s) ==
    IF s # <<>> /\ is_whitespace(s[Len(s)])
    THEN trim_end(SubSeq(s, 1, Len(s) - 1))
    ELSE s

trim_nothing(s) == s

trim(s) == trim_end(trim_start(s))

to_lowercase(s) == [i \in 1..Len(s) |-> char_to_lowercase(s[i])]

starts_with_anything(s, prefix) == TRUE

starts_with(s, prefix) ==
    Len(s) >= Len(prefix) /\ SubSeq(s, 1, Len(prefix)) = prefix

\* let trimmed_query = query.trim().to_lowercase();
\* trimmed_query.starts_with("select")
select_only_guard(query) ==
    starts_with(to_lowercase(trim(query)), <<"s", "e", "l", "e", "c", "t">>)

guard_error == Err("InvalidArgument: Only SELECT queries are allowed")

(***************************************************************************)
(* The query texts of the callers.                                         *)
(***************************************************************************)
RECURSIVE Words(_)
\* the words joined by single spaces
Words(ws) ==
    IF ws = <<>> THEN <<>>
    ELSE IF Len(ws) = 1 THEN Head(ws)
    ELSE Head(ws) \o <<" ">> \o Words(Tail(ws))

SelectWords ==
    { <<"s", "e", "l", "e", "c", "t">>,
      <<"S", "E", "L", "E", "C", "T">>,
      <<"S", "e", "L", "e", "C", "t">> }
FromWords == { <<"f", "r", "o", "m">>, <<"F", "R", "O", "M">> }
DeleteWords == { <<"d", "e", "l", "e", "t", "e">>, <<"D", "E", "L", "E", "T", "E">> }
UsersWord == <<"u", "s", "e", "r", "s">>
SamplesWord == <<"s", "a", "m", "p", "l", "e", "s">>
PurgeWord == <<"p", "u", "r", "g", "e", "(", ")">>

QueryBodies ==
    {Words(<<sel, <<"1">>>>) : sel \in SelectWords}
    \cup {Words(<<sel, <<"*">>, from, UsersWord>>) : sel \in SelectWords, from \in FromWords}
    \cup {Words(<<sel, <<"*">>, <<"f", "r", "o", "m">>, SamplesWord>>) : sel \in SelectWords}
    \cup {Words(<<sel, PurgeWord>>) : sel \in SelectWords}
    \cup {Words(<<del, from, UsersWord>>) : del \in DeleteWords, from \in FromWords}
    \cup { Words(<<<<"D", "E", "L", "E", "T", "E">>, <<"F", "R", "O", "M">>, <<"t">>>>),
           <<"s", "e", "l", "e", "c", "t", "x">>,
           <<"s", "e", "l">>,
           <<>> }

Queries ==
    QueryBodies
    \cup {<<" ", " ">> \o body : body \in QueryBodies}
    \cup {<<"\n", "\t">> \o body \o <<" ", "\r">> : body \in QueryBodies}

(***************************************************************************)
(* What the driver returns for a query text: rows of typed cells.  The     *)
(* database reads a statement without regard to surrounding whitespace and *)
(* letter case.  Besides the table of the record it holds a table samples  *)
(* with one row and one column v, and a function purge() that deletes the  *)
(* rows of users.                                                          *)
(***************************************************************************)
Cell(ty, value) == [ty |-> ty, value |-> value]

\* the Rust types a column type decodes as (sqlx Type::compatible)
Compatible(ty) ==
    CASE ty = "INT8" -> {"i64"}
      [] ty = "INT4" -> {"i32"}
      [] ty = "FLOAT8" -> {"f64"}
      [] ty = "BOOL" -> {"bool"}
      [] ty = "TEXT" -> {"String"}
      [] ty = "BYTEA" -> {"Vec<u8>"}
      [] ty = "SQLITE INTEGER" -> {"i64", "i32", "bool"}
      [] ty = "SQLITE TEXT" -> {"String", "Vec<u8>"}
      [] OTHER -> {}

Cells ==
    { Cell("INT8", "7"), Cell("INT4", "7"), Cell("FLOAT8", "1.5"),
      Cell("BOOL", "true"), Cell("TEXT", "a"), Cell("TEXT", "7"),
      Cell("TEXT", "true"), Cell("TEXT", "null"), Cell("BYTEA", "\\x0102"),
      Cell("TEXT", "42"), Cell("TEXT", "007"), Cell("TEXT", " 7"),
      Cell("TEXT", "7a"), Cell("TEXT", "True"), Cell("TEXT", "\"a\""),
      Cell("TEXT", ""),
      Cell("SQLITE INTEGER", "1"), Cell("SQLITE TEXT", "a"),
      Cell("TIMESTAMPTZ", "2024-01-01T00:00:00Z"),
      Cell("INT8", None), Cell("TEXT", None) }

DbRow(columns, cells) == [columns |-> columns, cells |-> cells]

\* a row of the table of the record, as the driver returns it
FieldCell(f, v) ==
    IF f.ty = TyPlain("String") THEN Cell("TEXT", v) ELSE Cell("INT8", v)

TableRow(row) ==
    DbRow([i \in 1..NumFields |-> DeclaredColumn(input.fields[i])],
          [i \in 1..NumFields |->
              FieldCell(input.fields[i], row[DeclaredColumn(input.fields[i])])])

DbFetchAll(tbl, query, sample) ==
    LET stmt == to_lowercase(trim(query))
        select == <<"s", "e", "l", "e", "c", "t">>
        from == <<"f", "r", "o", "m">>
    IN IF stmt = Words(<<select, <<"1">>>>)
       THEN [result |-> Ok(<<DbRow(<<"?column?">>,
                                   <<IF gen.backend = "Postgres" THEN Cell("INT4", "1")
                                     ELSE Cell("INT8", "1")>>)>>),
             table |-> tbl]
       ELSE IF stmt = Words(<<select, <<"*">>, from, SamplesWord>>)
       THEN [result |-> Ok(<<DbRow(<<"v">>, <<sample>>)>>), table |-> tbl]
       ELSE IF stmt = Words(<<select, PurgeWord>>)
       THEN [result |-> Ok(<<DbRow(<<"purge">>, <<Cell("VOID", "")>>)>>), table |-> <<>>]
       ELSE IF stmt = Words(<<select, <<"*">>, from, UsersWord>>)
       THEN IF DbTable = "users"
            THEN [result |-> Ok([i \in 1..Len(tbl) |-> TableRow(tbl[i])]), table |-> tbl]
            ELSE [result |-> Err("TableNotFound"), table |-> tbl]
       ELSE IF stmt = Words(<<<<"d", "e", "l", "e", "t", "e">>, from, UsersWord>>)
       THEN IF DbTable = "users"
            THEN [result |-> Ok(<<>>), table |-> <<>>]
            ELSE [result |-> Err("TableNotFound"), table |-> tbl]
       ELSE IF stmt = Words(<<<<"d", "e", "l", "e", "t", "e">>, from, <<"t">>>>)
       THEN [result |-> Err("TableNotFound"), table |-> tbl]
       ELSE [result |-> Err("SyntaxError"), table |-> tbl]

\* the cell of a column of a row, by name
ColumnCell(row, column) ==
    row.cells[CHOOSE i \in 1..Len(row.columns) :
                 /\ row.columns[i] = column
                 /\ \A j \in 1..(i - 1) : row.columns[j] # column]

\* row.try_get::<T, _>(column)
try_get(T, row, column) ==
    IF \A i \in 1..Len(row.columns) : row.columns[i] # column
    THEN Err("ColumnNotFound")
    ELSE LET cell == ColumnCell(row, column)
         IN IF cell.value = None THEN Err("ColumnDecode: UnexpectedNull")
            ELSE IF T \in Compatible(cell.ty) THEN Ok(cell.value)
            ELSE Err("ColumnDecode: mismatched types")

(***************************************************************************)
(* serde_json values.                                                      *)
(***************************************************************************)
Json(kind, value) == [json |-> kind, value |-> value]
JsonNull == Json("null", None)

Digits == {"0", "1", "2", "3", "4", "5", "6", "7", "8", "9"}

\* str::chars of the texts that text cells hold
TextChars ==
    { <<"a", <<"a">>>>, <<"b", <<"b">>>>, <<"7", <<"7">>>>,
      <<"42", <<"4", "2">>>>, <<"007", <<"0", "0", "7">>>>,
      <<" 7", <<" ", "7">>>>, <<"7a", <<"7", "a">>>>,
      <<"true", <<"t", "r", "u", "e">>>>, <<"True", <<"T", "r", "u", "e">>>>,
      <<"null", <<"n", "u", "l", "l">>>>,
      <<"\"a\"", <<"\"", "a", "\"">>>>, <<"", <<>>>> }

chars(s) == (CHOOSE p \in TextChars : p[1] = s)[2]

all_digits(cs) == cs # <<>> /\ \A i \in 1..Len(cs) : cs[i] \in Digits

\* the JSON number grammar without exponent: -? (0 | [1-9][0-9]*) (. [0-9]+)?
is_json_number(cs) ==
    LET body == IF cs # <<>> /\ cs[1] = "-" THEN Tail(cs) ELSE cs
        dots == {i \in 1..Len(body) : body[i] = "."}
        dot == IF dots = {} THEN Len(body) + 1
               ELSE CHOOSE i \in dots : \A j \in dots : i <= j
        int == SubSeq(body, 1, dot - 1)
        frac == SubSeq(body, dot + 1, Len(body))
    IN /\ all_digits(int)
       /\ Len(int) = 1 \/ int[1] # "0"
       /\ dots # {} => all_digits(frac)

\* a JSON string without escapes
is_json_string(cs) ==
    /\ Len(cs) >= 2
    /\ cs[1] = "\"" /\ cs[Len(cs)] = "\""
    /\ \A i \in 2..(Len(cs) - 1) : cs[i] \notin {"\"", "\\"}

from_str_fails(s) == Err("expected value")

\* serde_json::from_str::<Value>: one JSON value between optional
\* whitespace (the texts of the model hold no array and no object)
from_str(s) ==
    LET cs == trim(chars(s))
    IN IF is_json_number(cs) THEN Ok(Json("number", Concat(cs)))
       ELSE IF cs = <<"t", "r", "u", "e">> THEN Ok(Json("bool", "true"))
       ELSE IF cs = <<"f", "a", "l", "s", "e">> THEN Ok(Json("bool", "false"))
       ELSE IF cs = <<"n", "u", "l", "l">> THEN Ok(JsonNull)
       ELSE IF is_json_string(cs)
            THEN Ok(Json("string", Concat(SubSeq(cs, 2, Len(cs) - 1))))
       ELSE Err("expected value")

\* serde_json::json!(v) of a decoded value, after the nested parse of text
to_json(T, v) ==
    CASE T \in {"i64", "f64", "i32"} -> Json("number", v)
      [] T = "bool" -> Json("bool", v)
      [] T = "String" -> IF from_str(v).ok THEN from_str(v).value ELSE Json("string", v)
      [] T = "Vec<u8>" -> Json("array", v)

coercion_order_bool_first == <<"bool", "i64", "f64", "String", "Vec<u8>", "i32">>

\* the if-let chain of execute_select_only
coercion_order == <<"i64", "f64", "bool", "String", "Vec<u8>", "i32">>

\* the position in the chain of the first try_get that succeeds, 0 if none
first_ok(row, column) ==
    LET ok == {k \in 1..Len(coercion_order) : try_get(coercion_order[k], row, column).ok}
    IN IF ok = {} THEN 0 ELSE CHOOSE k \in ok : \A j \in ok : k <= j

json_value(row, column) ==
    LET k == first_ok(row, column)
    IN IF k = 0 THEN JsonNull
       ELSE to_json(coercion_order[k], try_get(coercion_order[k], row, column).value)

\* the try_get calls made for one cell
try_get_calls(row, column) ==
    LET k == first_ok(row, column)
        n == IF k = 0 THEN Len(coercion_order) ELSE k
    IN [j \in 1..n |-> DriverCall("try_get", column, <<coercion_order[j]>>,
                                  try_get(coercion_order[j], row, column))]

RECURSIVE Flatten(_)
Flatten(seqs) == IF seqs = <<>> THEN <<>> ELSE Head(seqs) \o Flatten(Tail(seqs))

first_row_columns_skipped(rows) == <<>>

\* columns of the first row, empty when there is none
first_row_columns(rows) == IF rows = <<>> THEN <<>> ELSE rows[1].columns

json_rows(rows) ==
    LET columns == first_row_columns(rows)
    IN [i \in 1..Len(rows) |->
           [c \in {columns[j] : j \in 1..Len(columns)} |-> json_value(rows[i], c)]]

json_rows_calls(rows) ==
    LET columns == first_row_columns(rows)
    IN Flatten([i \in 1..Len(rows) |->
                   Flatten([j \in 1..Len(columns) |-> try_get_calls(rows[i], columns[j])])])

\* sqlx::FromRow of the caller's type T, here the record: every field from
\* its column
from_row(row) ==
    LET column(j) == DeclaredColumn(input.fields[j])
    IN IF \E j \in 1..NumFields : \A i \in 1..Len(row.columns) : row.columns[i] # column(j)
       THEN Err("ColumnNotFound")
       ELSE IF \E j \in 1..NumFields :
                  /\ ColumnCell(row, column(j)).value = None
                  /\ input.fields[j].ty \in {TyPlain("String"), TyPlain("i64")}
       THEN Err("ColumnDecode: UnexpectedNull")
       ELSE Ok([x \in {input.fields[j].ident : j \in 1..NumFields} |->
                   ColumnCell(row, column(CHOOSE j \in 1..NumFields :
                                             input.fields[j].ident = x)).value])

\* query_as(query).fetch_all(pool): the first row that does not decode
\* fails the call
from_row_all(rows) ==
    LET bad == {i \in 1..Len(rows) : ~from_row(rows[i]).ok}
    IN IF bad # {} THEN from_row(rows[CHOOSE i \in bad : \A j \in bad : i <= j])
       ELSE Ok([i \in 1..Len(rows) |-> from_row(rows[i]).value])

SelectCall(op, query, io, result, before) ==
    Call(op, None, io, result, before) @@ [query |-> query]

execute_select_only(query, sample) ==
    /\ pc = "expanded"
    /\ IF ~select_only_guard(query)
       THEN /\ last' = SelectCall("execute_select_only", query, FALSE, guard_error, table)
            /\ driver' = <<>>
            /\ table' = table
       ELSE \E io \in BOOLEAN :
               LET r == IF io THEN [result |-> PoolTimedOut, table |-> table]
                        ELSE DbFetchAll(table, query, sample)
                   fetch == DriverCall("fetch_all", query, <<>>, r.result)
               IN /\ table' = r.table
                  /\ IF try_returns(r.result)
                     THEN /\ last' = SelectCall("execute_select_only", query, io,
                                                r.result, table)
                          /\ driver' = <<fetch>>
                     ELSE /\ last' = SelectCall("execute_select_only", query, io,
                                                Ok(json_rows(r.result.value)), table)
                          /\ driver' = <<fetch>> \o json_rows_calls(r.result.value)
    /\ UNCHANGED <<input, pc, gen, batch, handles, pools, dropped, other>>

execute_select_as_only(query, sample) ==
    /\ pc = "expanded"
    /\ IF ~select_only_guard(query)
       THEN /\ last' = SelectCall("execute_select_as_only", query, FALSE, guard_error, table)
            /\ driver' = <<>>
            /\ table' = table
       ELSE \E io \in BOOLEAN :
               LET r == IF io THEN [result |-> PoolTimedOut, table |-> table]
                        ELSE DbFetchAll(table, query, sample)
                   result == IF r.result.ok THEN from_row_all(r.result.value)
                             ELSE r.result
               IN /\ table' = r.table
                  /\ last' = SelectCall("execute_select_as_only", query, io, result, table)
                  /\ driver' = <<DriverCall("fetch_all", query, <<>>, result)>>
    /\ UNCHANGED <<input, pc, gen, batch, handles, pools, dropped, other>>

Field(ident, attrs, ty) == [ident |-> ident, attrs |-> attrs, ty |-> ty]

\* the record types whose operations are run
RunDecls ==
    { [ident |-> "User", attrs |-> StructAttrs("users", "postgres"),
       fields |-> <<Field("id", <<Attr("crud", <<MetaPath("primary_key")>>)>>,
                          TyOption(TyPlain("i64"))),
                    Field("name", <<>>, TyPlain("String"))>>],
      [ident |-> "User", attrs |-> <<>>,
       fields |-> <<Field("id", <<>>, TyPlain("i64")),
                    Field("name", <<>>, TyPlain("String"))>>],
      [ident |-> "User", attrs |-> StructAttrs("users", "sqlite"),
       fields |-> <<Field("id", <<Attr("crud", <<MetaPath("primary_key"),
                                       MetaNameValue("rename", "user_id")>>)>>,
                          TyOption(TyPlain("i64"))),
                    Field("name", <<Attr("crud", <<MetaNameValue("rename", "user_name")>>)>>,
                          TyPlain("String"))>>],
      [ident |-> "User", attrs |-> StructAttrs("users", "postgres"),
       fields |-> <<Field("name", <<>>, TyPlain("String")),
                    Field("id", <<Attr("crud", <<MetaPath("primary_key")>>)>>,
                          TyPlain("i64"))>>],
      [ident |-> "User", attrs |-> StructAttrs("users", "mysql"),
       fields |-> <<Field("id", <<>>, TyOption(TyPlain("i64")))>>],
      [ident |-> "User", attrs |-> StructAttrs("users", "mysql"),
       fields |-> <<Field("id", <<Attr("crud", <<MetaPath("primary_key"),
                                       MetaNameValue("rename", "user_id")>>)>>,
                          TyPlain("i64")),
                    Field("legacy_id", <<Attr("crud", <<MetaNameValue("rename", "id")>>)>>,
                          TyPlain("i64"))>>] }

InitRun ==
    /\ input \in RunDecls
    /\ pc = "input"
    /\ gen = NoGen
    /\ table = <<>>
    /\ last = NoCall
    /\ batch = NoBatch
    /\ driver = <<>>
    /\ handles = <<>>
    /\ pools = NoPools
    /\ dropped = {}
    /\ other = NoBatch

NextRun ==
    \/ Expand
    \/ \E e \in RunEntities : insert(e)
    \/ \E id \in Keys : get_by_id(id)
    \/ \E id \in Keys : \E e \in RunEntities : update_by_id(id, e)
    \/ \E id \in Keys : delete_by_id(id)

SpecRun == InitRun /\ [][NextRun]_vars

\* one call of an operation, on the empty table and on a table holding one
\* row per key
SeedTable ==
    [i \in 1..MaxKey |->
        [c \in DbColumns |-> IF c = DbKeyColumn THEN ToString(i) ELSE "a"]]

\* the cell of samples.v matters to the query that reads it
SampleCells(query) ==
    IF to_lowercase(trim(query))
          = Words(<<<<"s", "e", "l", "e", "c", "t">>, <<"*">>, <<"f", "r", "o", "m">>,
                    SamplesWord>>)
    THEN Cells
    ELSE {Cell("INT8", "7")}

InitCall ==
    /\ input \in RunDecls
    /\ pc = "input"
    /\ gen = NoGen
    /\ table \in {<<>>, SeedTable}
    /\ last = NoCall
    /\ batch = NoBatch
    /\ driver = <<>>
    /\ handles = <<>>
    /\ pools = NoPools
    /\ dropped = {}
    /\ other = NoBatch

\* one call in a behaviour
Idle == last = NoCall /\ ~batch.active

NextCall ==
    \/ Expand
    \/ Idle /\ \E e \in RunEntities : insert(e)
    \/ Idle /\ \E id \in Keys : get_by_id(id)
    \/ Idle /\ \E id \in Keys : \E e \in RunEntities : update_by_id(id, e)
    \/ Idle /\ \E id \in Keys : delete_by_id(id)
    \/ Idle /\ \E es \in BatchSlices : insert_batch(es)
    \/ insert_batch_resume
    \/ Idle /\ \E q \in Queries : \E c \in SampleCells(q) : execute_select_only(q, c)
    \/ Idle /\ \E q \in Queries : \E c \in SampleCells(q) : execute_select_as_only(q, c)

SpecCall == InitCall /\ [][NextCall]_vars

\* one insert_batch on a handle, on the empty table and on a table holding
\* a row, beside the get_by_id calls of a second handle on the same pool
InitConc ==
    /\ input \in RunDecls
    /\ pc = "input"
    /\ gen = NoGen
    /\ table \in {<<>>, SubSeq(SeedTable, 1, 1)}
    /\ last = NoCall
    /\ batch = NoBatch
    /\ driver = <<>>
    /\ handles = <<>>
    /\ pools = NoPools
    /\ dropped = {}
    /\ other = NoBatch

NextConc ==
    \/ Expand
    \/ Idle /\ \E es \in BatchSlices : insert_batch(es)
    \/ insert_batch_resume
    \/ batch.active /\ \E id \in Keys : get_by_id(id)

SpecConc == InitConc /\ [][NextConc]_vars

\* two handles of the pool call insert_batch on the empty table, a third
\* calls get_by_id while the first batch is in progress
InitTwo ==
    /\ input \in {d \in RunDecls : DeclaredDb(d) = "postgres"}
    /\ pc = "input"
    /\ gen = NoGen
    /\ table = <<>>
    /\ last = NoCall
    /\ batch = NoBatch
    /\ driver = <<>>
    /\ handles = <<>>
    /\ pools = NoPools
    /\ dropped = {}
    /\ other = NoBatch

\* slices of entities with keys, in increasing order of the key
KeyNumber(k) == CHOOSE i \in 1..MaxKey : ToString(i) = k

KeyedSlices ==
    LET key == input.fields[DeclaredKeyIndex(input)].ident
    IN {es \in BatchSlices :
           /\ \A i \in 1..Len(es) : es[i][key] # None
           /\ \A i \in 1..(Len(es) - 1) :
                 KeyNumber(es[i][key]) < KeyNumber(es[i + 1][key])}

NextTwo ==
    \/ Expand
    \/ table = <<>> /\ \E es \in KeyedSlices : insert_batch(es)
    \/ insert_batch_resume
    \/ table = <<>> /\ \E es \in KeyedSlices : other_insert_batch(es)
    \/ other_insert_batch_resume
    \/ batch.active /\ \E id \in Keys : get_by_id(id)

SpecTwo == InitTwo /\ [][NextTwo]_vars

(***************************************************************************)
(* The typed handles.  handles holds the handles constructed so far; a     *)
(* handle names the underlying pool it shares, its database marker and,    *)
(* for a table handle, its table marker; from is the position of the       *)
(* handle it was made from (0 for from_pool).                              *)
(***************************************************************************)
DatabaseMarkers == {"UserDatabase", "LoggingDatabase"}
TableMarkers == {"User", "LogEntry"}

\* SqlPool(pool, PhantomData): SqlPool<P, DB>
SqlPool(pool_, DB, from) ==
    [kind |-> "SqlPool", pool |-> pool_, DB |-> DB, Table |-> None, from |-> from]

\* SqlTable(SqlPool<P, DB>, PhantomData): SqlTable<P, DB, Table>
SqlTable(sql_pool, Table, from) ==
    [kind |-> "SqlTable", pool |-> sql_pool.pool, DB |-> sql_pool.DB,
     Table |-> Table, from |-> from]

\* Self(self.0.clone(), PhantomData)
clone(self, from) == SqlPool(self.pool, self.DB, from)

get_table_unit_marker(self, Table, from) ==
    SqlTable(SqlPool(self.pool, "()", from), Table, from)

\* SqlTable(self.clone(), PhantomData)
get_table_handle(self, Table, from) == SqlTable(clone(self, from), Table, from)

\* &self.0, self.0.pool(): the pool behind a handle
pool(self) == self.pool
get_pool_of_another(self) == CHOOSE p \in RawPools : p # self.pool

get_pool(self) == pool(self)
as_ref(self) == get_pool(self)
deref(self) == get_pool(self)

\* The Pool<P> a handle owns is one holder of the driver's pool: the first
\* holder is the pool the caller connected, Pool::clone adds a holder, and
\* the driver tears the pool down when its last holder is dropped.
pool_held(ps, p) ==
    [ps EXCEPT ![p] = IF @.state = "unconnected"
                      THEN [state |-> "open", strong |-> 1]
                      ELSE [@ EXCEPT !.strong = @ + 1]]

pool_clone_borrowed(ps, p) == ps

\* self.0.clone()
pool_clone(ps, p) == [ps EXCEPT ![p].strong = @ + 1]

pool_drop(ps, p) ==
    [ps EXCEPT ![p] = IF @.strong = 1
                      THEN [state |-> "closed", strong |-> 0]
                      ELSE [@ EXCEPT !.strong = @ - 1]]

Live == (1..Len(handles)) \ dropped

from_pool(raw, DB) ==
    /\ Len(handles) < MaxHandles
    /\ pools[raw].state # "closed"
    /\ handles' = Append(handles, SqlPool(raw, DB, 0))
    /\ pools' = pool_held(pools, raw)
    /\ UNCHANGED <<input, pc, gen, table, last, batch, driver, dropped, other>>

clone_pool(h) ==
    /\ Len(handles) < MaxHandles
    /\ h \in Live
    /\ handles[h].kind = "SqlPool"
    /\ handles' = Append(handles, clone(handles[h], h))
    /\ pools' = pool_clone(pools, handles[h].pool)
    /\ UNCHANGED <<input, pc, gen, table, last, batch, driver, dropped, other>>

get_table(h, Table) ==
    /\ Len(handles) < MaxHandles
    /\ h \in Live
    /\ handles[h].kind = "SqlPool"
    /\ handles' = Append(handles, get_table_handle(handles[h], Table, h))
    /\ pools' = pool_clone(pools, handles[h].pool)
    /\ UNCHANGED <<input, pc, gen, table, last, batch, driver, dropped, other>>

\* #[derive(Clone)] of SqlTable: the copy stems from the same pool handle
clone_table(h) ==
    /\ Len(handles) < MaxHandles
    /\ h \in Live
    /\ handles[h].kind = "SqlTable"
    /\ handles' = Append(handles, handles[h])
    /\ pools' = pool_clone(pools, handles[h].pool)
    /\ UNCHANGED <<input, pc, gen, table, last, batch, driver, dropped, other>>

\* a handle goes out of scope: its fields are dropped, the Pool<P> with them
drop(h) ==
    /\ h \in Live
    /\ dropped' = dropped \cup {h}
    /\ pools' = pool_drop(pools, handles[h].pool)
    /\ UNCHANGED <<input, pc, gen, table, last, batch, driver, handles, other>>

\* an accessor returns a reference to the pool and does nothing else
Accessor(op, h, value) ==
    /\ h \in Live
    /\ last' = Call(op, h, "none", Ok(value), table)
    /\ driver' = <<>>
    /\ UNCHANGED <<input, pc, gen, table, batch, handles, pools, dropped, other>>

pool_of(h) ==
    /\ handles[h].kind = "SqlPool"
    /\ Accessor("pool", h, pool(handles[h]))

get_pool_of(h) ==
    /\ handles[h].kind = "SqlTable"
    /\ Accessor("get_pool", h, get_pool(handles[h]))

as_ref_of(h) ==
    /\ handles[h].kind = "SqlTable"
    /\ Accessor("as_ref", h, as_ref(handles[h]))

deref_of(h) ==
    /\ handles[h].kind = "SqlTable"
    /\ Accessor("deref", h, deref(handles[h]))

InitHandles ==
    /\ input \in RunDecls
    /\ pc = "input"
    /\ gen = NoGen
    /\ table = <<>>
    /\ last = NoCall
    /\ batch = NoBatch
    /\ driver = <<>>
    /\ handles = <<>>
    /\ pools = NoPools
    /\ dropped = {}
    /\ other = NoBatch

\* a raw pool is one the caller connected, or the pool behind a handle
NextHandles ==
    \/ \E raw \in RawPools, DB \in DatabaseMarkers : from_pool(raw, DB)
    \/ \E h \in 1..Len(handles), DB \in DatabaseMarkers :
          from_pool(get_pool(handles[h]), DB)
    \/ \E h \in 1..Len(handles) : clone_pool(h)
    \/ \E h \in 1..Len(handles), Table \in TableMarkers : get_table(h, Table)
    \/ \E h \in 1..Len(handles) : clone_table(h)

SpecHandles == InitHandles /\ [][NextHandles]_vars

\* the handles of an application over their whole life: each pool is
\* connected once and handed to from_pool, handles are cloned, derived,
\* asked for their pool and dropped
InitLife ==
    /\ input \in {d \in RunDecls : d.attrs = <<>>}
    /\ pc = "input"
    /\ gen = NoGen
    /\ table = SeedTable
    /\ last = NoCall
    /\ batch = NoBatch
    /\ driver = <<>>
    /\ handles = <<>>
    /\ pools = NoPools
    /\ dropped = {}
    /\ other = NoBatch

NextLife ==
    \/ \E raw \in RawPools, DB \in DatabaseMarkers :
          pools[raw].state = "unconnected" /\ from_pool(raw, DB)
    \/ \E h \in 1..Len(handles) : clone_pool(h)
    \/ \E h \in 1..Len(handles), Table \in TableMarkers : get_table(h, Table)
    \/ \E h \in 1..Len(handles) : clone_table(h)
    \/ \E h \in 1..Len(handles) : drop(h)

SpecLife == InitLife /\ [][NextLife]_vars

\* the same handles, none dropped, and one call of an accessor
NextAccess ==
    \/ \E raw \in RawPools, DB \in DatabaseMarkers :
          last = NoCall /\ pools[raw].state = "unconnected" /\ from_pool(raw, DB)
    \/ \E h \in 1..Len(handles) : last = NoCall /\ clone_pool(h)
    \/ \E h \in 1..Len(handles), Table \in TableMarkers :
          last = NoCall /\ get_table(h, Table)
    \/ \E h \in 1..Len(handles) : last = NoCall /\ clone_table(h)
    \/ \E h \in 1..Len(handles) : last = NoCall /\ pool_of(h)
    \/ \E h \in 1..Len(handles) : last = NoCall /\ get_pool_of(h)
    \/ \E h \in 1..Len(handles) : last = NoCall /\ as_ref_of(h)
    \/ \E h \in 1..Len(handles) : last = NoCall /\ deref_of(h)

SpecAccess == InitLife /\ [][NextAccess]_vars

(***************************************************************************)
(* C1: insert(entity) is INSERT INTO <table> (<columns>) VALUES            *)
(* (<placeholders>) with exactly n columns and n placeholders, one per     *)
(* declared field in declared order, and binds exactly the n field values  *)
(* of the entity in declared order, the key field included even when None. *)
(***************************************************************************)
InsertBindsEveryField ==
    Expanded =>
        LET sql == insert_sql(gen)
            n == NumFields
        IN /\ Len(sql) = 4 * n + 3
           /\ sql[1] = "INSERT INTO "
           /\ sql[2] = gen.table_name
           /\ sql[3] = " ("
           /\ \A i \in 1..n : sql[2 + 2 * i] = DeclaredColumn(input.fields[i])
           /\ \A i \in 1..(n - 1) : sql[3 + 2 * i] = ", "
           /\ sql[2 * n + 3] = ") VALUES ("
           /\ \A i \in 1..n : sql[2 * n + 2 + 2 * i] = DialectPlaceholder(input, i)
           /\ \A i \in 1..(n - 1) : sql[2 * n + 3 + 2 * i] = ", "
           /\ sql[4 * n + 3] = ")"
           /\ \A v \in BindVals :
                 insert_binds(gen, DistinctWithKey(v))
                    = [i \in 1..n |-> DistinctWithKey(v)[input.fields[i].ident]]

\* a three-field postgres record whose Option key is bound as None
InsertBindsEveryFieldWitness ==
    /\ Expanded
    /\ NumFields = 3
    /\ gen.backend = "Postgres"
    /\ gen.primary_key_field = "id"
    /\ Concat(insert_sql(gen)) = "INSERT INTO users (id, name, email) VALUES ($1, $2, $3)"
    /\ insert_binds(gen, DistinctWithKey(None))
          = <<None, "value of name", "value of email">>

KeyPosition ==
    CHOOSE i \in 1..NumFields : input.fields[i].ident = gen.primary_key_field

WhereColumn(sql) == sql[Len(sql) - 2]

WhereUsesKeyColumn ==
    Expanded =>
        /\ WhereColumn(get_by_id_sql(gen)) = DeclaredColumn(input.fields[KeyPosition])
        /\ WhereColumn(update_by_id_sql(gen)) = DeclaredColumn(input.fields[KeyPosition])
        /\ WhereColumn(delete_by_id_sql(gen)) = DeclaredColumn(input.fields[KeyPosition])
        /\ WhereColumn(get_by_id_sql(gen)) = insert_sql(gen)[2 + 2 * KeyPosition]

(***************************************************************************)
(* C4: the five statements for mysql and sqlite are identical, and those   *)
(* for postgres are the same text with the j-th ? replaced by $j; table,   *)
(* columns, clause structure and binding order do not depend on the        *)
(* dialect.                                                                *)
(***************************************************************************)
WithDb(di, d) ==
    [di EXCEPT !.attrs =
        StructAttrs(IF DeclaredValues(di.attrs, "table") = {} THEN None
                    ELSE DeclaredTable(di), d)]

Statements(g) ==
    <<delete_by_id_sql(g), get_by_id_sql(g), insert_sql(g), update_by_id_sql(g),
      insert_batch_sql(g)>>

RECURSIVE NumberPlaceholders(_, _)
NumberPlaceholders(sql, j) ==
    IF sql = <<>> THEN <<>>
    ELSE IF Head(sql) = "?"
         THEN <<PgPlaceholder(j)>> \o NumberPlaceholders(Tail(sql), j + 1)
         ELSE <<Head(sql)>> \o NumberPlaceholders(Tail(sql), j)

DialectChangesOnlyPlaceholders ==
    Expanded =>
        \A my \in {derive_crud_ops_ref(WithDb(input, "mysql"))} :
        \A lite \in {derive_crud_ops_ref(WithDb(input, "sqlite"))} :
        \A pg \in {derive_crud_ops_ref(WithDb(input, "postgres"))} :
        \A st \in {<<Statements(my), Statements(lite), Statements(pg)>>} :
           /\ DeclaredDb(input) = "mysql" => gen = my
           /\ DeclaredDb(input) = "sqlite" => gen = lite
           /\ DeclaredDb(input) = "postgres" => gen = pg
           /\ \A s \in 1..5 :
                 /\ st[2][s] = st[1][s]
                 /\ st[3][s] = NumberPlaceholders(st[1][s], 1)
           /\ insert_binds(pg, Distinct) = insert_binds(my, Distinct)
           /\ insert_binds(lite, Distinct) = insert_binds(my, Distinct)
           /\ update_by_id_binds(pg, "7", Distinct) = update_by_id_binds(my, "7", Distinct)
           /\ update_by_id_binds(lite, "7", Distinct) = update_by_id_binds(my, "7", Distinct)

\* a postgres expansion of three fields, two of them set by the update
DialectChangesOnlyPlaceholdersWitness ==
    /\ Expanded
    /\ DeclaredDb(input) = "postgres"
    /\ NumFields = 3
    /\ Concat(update_by_id_sql(gen))
          = "UPDATE users SET user_name = $1, email = $2 WHERE id = $3"
    /\ Concat(update_by_id_sql(derive_crud_ops_ref(WithDb(input, "sqlite"))))
          = "UPDATE users SET user_name = ?, email = ? WHERE id = ?"

(***************************************************************************)
(* C5: User{id: Option<i64> [primary_key], name, email}, table = "users",  *)
(* db = "postgres".                                                        *)
(***************************************************************************)
UserDecl ==
    [ident |-> "User",
     attrs |-> StructAttrs("users", "postgres"),
     fields |-> <<[ident |-> "id",
                   attrs |-> <<Attr("crud", <<MetaPath("primary_key")>>)>>,
                   ty |-> TyOption(TyPlain("i64"))],
                  [ident |-> "name", attrs |-> <<>>, ty |-> TyPlain("String")],
                  [ident |-> "email", attrs |-> <<>>, ty |-> TyPlain("String")]>>]

Alice == [id |-> None, name |-> "Alice", email |-> "a@x.com"]

\* C5 as stated: the texts are exactly those of the scenario, without
\* spaces after the commas of the VALUES list and around the = signs
UserScenarioTextAsStated ==
    (Expanded /\ input = UserDecl) =>
        /\ Concat(insert_sql(gen)) = "INSERT INTO users (id, name, email) VALUES ($1,$2,$3)"
        /\ insert_binds(gen, Alice) = <<None, "Alice", "a@x.com">>
        /\ Concat(update_by_id_sql(gen)) = "UPDATE users SET name=$1, email=$2 WHERE id=$3"
        /\ update_by_id_binds(gen, "7", Alice) = <<"Alice", "a@x.com", "7">>

\* C5 amended: the same statements and parameters, the text carrying a
\* space after every comma and around every = sign
UserScenarioText ==
    (Expanded /\ input = UserDecl) =>
        /\ Concat(insert_sql(gen))
              = "INSERT INTO users (id, name, email) VALUES ($1, $2, $3)"
        /\ insert_binds(gen, Alice) = <<None, "Alice", "a@x.com">>
        /\ Concat(update_by_id_sql(gen))
              = "UPDATE users SET name = $1, email = $2 WHERE id = $3"
        /\ update_by_id_binds(gen, "7", Alice) = <<"Alice", "a@x.com", "7">>

UserScenarioTextWitness ==
    /\ Expanded
    /\ input = UserDecl
    /\ gen.backend = "Postgres"
    /\ insert_binds(gen, Alice)[1] = None

(***************************************************************************)
(* C6: the key field is the first declared field marked primary_key, or    *)
(* the first declared field if none is marked; every other marked field is *)
(* an ordinary column of the UPDATE SET list and of the INSERT column list *)
(* under its rename.                                                       *)
(***************************************************************************)
FlaggedPositions == {i \in 1..NumFields : HasPrimaryKeyFlag(input.fields[i])}

DeclaredKeyPosition ==
    IF FlaggedPositions = {} THEN 1
    ELSE CHOOSE i \in FlaggedPositions : \A j \in FlaggedPositions : i <= j

KeyIsFirstMarkedOrFirst ==
    Expanded =>
        /\ gen.primary_key_field = input.fields[DeclaredKeyPosition].ident
        /\ \A j \in FlaggedPositions \ {DeclaredKeyPosition} :
              /\ insert_sql(gen)[2 + 2 * j] = DeclaredColumn(input.fields[j])
              /\ \E i \in 1..Len(gen.non_pk_names) :
                    /\ gen.non_pk_idents[i] = input.fields[j].ident
                    /\ gen.non_pk_names[i] = DeclaredColumn(input.fields[j])
                    /\ update_by_id_sql(gen)[4 * i] = DeclaredColumn(input.fields[j])

(***************************************************************************)
(* C7: a key field declared as an optional wrapper of T has key type T;    *)
(* a key field declared with a non-optional type T has key type T.         *)
(***************************************************************************)
DeclaredKeyType == input.fields[KeyPosition].ty

\* Option<T>, however the path to Option is written
IsOptionalWrapper(ty) ==
    /\ ty.kind = "Path"
    /\ Len(ty.segs) > 0
    /\ ty.segs[Len(ty.segs)].ident = "Option"
    /\ Len(ty.segs[Len(ty.segs)].args) = 1

WrappedType(ty) == ty.segs[Len(ty.segs)].args[1]

\* Option<T> written with Option as the first segment of the path
IsBareOption(ty) == IsOptionalWrapper(ty) /\ ty.segs[1].ident = "Option"

field_column_mappings(di) ==
    [i \in 1..Len(di.fields) |-> <<di.fields[i].ident, DeclaredColumn(di.fields[i])>>]

ColumnsFollowDeclaration ==
    Expanded =>
        LET nk == NonKeyFields
        IN /\ Len(gen.field_names) = NumFields
           /\ \A i \in 1..NumFields :
                 /\ gen.field_names[i] = DeclaredColumn(input.fields[i])
                 /\ insert_sql(gen)[2 + 2 * i] = DeclaredColumn(input.fields[i])
                 /\ field_column_mappings(input)[i]
                       = <<gen.field_idents[i], gen.field_names[i]>>
                 /\ insert_binds(gen, Distinct)[i] = Distinct[input.fields[i].ident]
           /\ Len(gen.non_pk_names) = Len(nk)
           /\ \A i \in 1..Len(nk) :
                 /\ update_by_id_sql(gen)[4 * i] = DeclaredColumn(nk[i])
                 /\ update_by_id_binds(gen, "7", Distinct)[i] = Distinct[nk[i].ident]

\* three renamed fields whose declared order is neither the alphabetical
\* order of the field names nor that of the rename values
ColumnsFollowDeclarationWitness ==
    /\ Expanded
    /\ gen.field_idents = <<"id", "name", "email">>
    /\ gen.field_names = <<"user_id", "user_name", "email_address">>
    /\ Concat(insert_sql(gen))
          = "INSERT INTO User (user_id, user_name, email_address) VALUES (?, ?, ?)"
    /\ gen.non_pk_names = <<"user_name", "email_address">>

(***************************************************************************)
(* C9: all five statements use the table override when one is declared    *)
(* and the record type's name otherwise.                                   *)
(***************************************************************************)
TableNameIsOverrideOrTypeName ==
    Expanded =>
        \A s \in 1..5 : Statements(gen)[s][2] = DeclaredTable(input)

\* a record with the override, and its DELETE statement
TableNameIsOverrideOrTypeNameWitness ==
    /\ Expanded
    /\ DeclaredValues(input.attrs, "table") = {"users"}
    /\ input.ident = "User"
    /\ Concat(delete_by_id_sql(gen)) = "DELETE FROM users WHERE id = ?"

(***************************************************************************)
(* C10: get_by_id(id) returns the decoded record when exactly one row has  *)
(* that primary key and Ok(None), not an error, when no row has it (an     *)
(* empty table included), and it never changes the table.  A call that the *)
(* pool itself failed is left aside.                                       *)
(***************************************************************************)
RowsWithKey(tbl, id) == {i \in 1..Len(tbl) : tbl[i][DbKeyColumn] = id}

GetByIdFindsOrNotFound ==
    (last.op = "get_by_id" /\ ~last.io) =>
        LET hits == RowsWithKey(table, last.id)
        IN /\ table = last.before
           /\ Cardinality(hits) = 1 =>
                 last.result = Ok(Found(FromRow(table[CHOOSE i \in hits : TRUE])))
           /\ hits = {} => last.result = Ok(NotFound)

(***************************************************************************)
(* C11: update_by_id(id, entity) and delete_by_id(id) with a key that      *)
(* matches no row return Ok(()) and leave every row of the table as it     *)
(* was.  A call that the pool itself failed is left aside.                 *)
(***************************************************************************)
MissingKeyIsSuccessAndNoChange ==
    (/\ last.op \in {"update_by_id", "delete_by_id"}
     /\ ~last.io
     /\ RowsWithKey(last.before, last.id) = {}) =>
        /\ last.result = Ok(Unit)
        /\ table = last.before

(***************************************************************************)
(* C12: insert_batch(entities) issues one single-row INSERT per entity in  *)
(* slice order, one per await; when the statement of entity i fails the    *)
(* error is returned at once, the rows of entities 1..i-1 stay inserted    *)
(* and nothing is issued for entities i+1..n; an empty slice issues no     *)
(* statement and returns Ok(()).                                           *)
(***************************************************************************)
\* the row an entity is stored as
EntityRow(e) ==
    [c \in DbColumns |->
        e[input.fields[CHOOSE i \in 1..NumFields :
                          DeclaredColumn(input.fields[i]) = c].ident]]

Rows(tbl) == {tbl[i] : i \in 1..Len(tbl)}

\* the statements of a returned insert_batch
InsertBatchStatements ==
    last.op = "insert_batch" =>
        LET es == last.entities
            n == Len(driver)
        IN /\ n <= Len(es)
           /\ \A j \in 1..n :
                 /\ driver[j].kind = "execute"
                 /\ driver[j].sql = insert_sql(gen)
                 /\ NumPlaceholders(driver[j].sql) = NumFields
                 /\ driver[j].binds = [i \in 1..NumFields |-> es[j][input.fields[i].ident]]
           /\ \A j \in 1..(n - 1) : driver[j].result = Ok(Unit)
           /\ IF last.result.ok
              THEN n = Len(es) /\ last.result = Ok(Unit)
              ELSE n >= 1 /\ driver[n].result = last.result
           /\ es = <<>> => driver = <<>> /\ last.result = Ok(Unit)

\* a step of the insert_batch in progress
InsertBatchStep ==
    (batch.active /\ batch' # batch) =>
        LET i == batch.next
        IN IF i > Len(batch.entities)
           THEN table' = table /\ last'.result = Ok(Unit)
           ELSE \/ /\ table' = Append(table, EntityRow(batch.entities[i]))
                   /\ batch'.active
                   /\ batch'.next = i + 1
                   /\ Len(batch'.calls) = i
                \/ /\ table' = table
                   /\ ~batch'.active
                   /\ ~last'.result.ok
                   /\ Len(driver') = i

InsertBatchIsAtomic ==
    (last.op = "insert_batch" /\ ~last.result.ok) =>
        \A j \in 1..Len(driver) :
            driver[j].result.ok => EntityRow(last.entities[j]) \notin Rows(table)

(***************************************************************************)
(* C14: execute_select_only and execute_select_as_only accept a query      *)
(* text exactly when, leading whitespace and letter case aside, it begins  *)
(* with select; an accepted text goes to the driver as the caller wrote    *)
(* it.                                                                     *)
(***************************************************************************)
SelectCalled == last.op \in {"execute_select_only", "execute_select_as_only"}

\* whitespace, then the six letters in either case
BeginsWithSelect(q) ==
    \E k \in 0..Len(q) :
        /\ \A i \in 1..k : q[i] \in {" ", "\t", "\n", "\r"}
        /\ Len(q) >= k + 6
        /\ q[k + 1] \in {"s", "S"}
        /\ q[k + 2] \in {"e", "E"}
        /\ q[k + 3] \in {"l", "L"}
        /\ q[k + 4] \in {"e", "E"}
        /\ q[k + 5] \in {"c", "C"}
        /\ q[k + 6] \in {"t", "T"}

GuardAcceptsSelectPrefix ==
    SelectCalled =>
        /\ BeginsWithSelect(last.query) <=> driver # <<>>
        /\ BeginsWithSelect(last.query) <=> last.result.err # guard_error.err
        /\ driver # <<>> =>
              /\ driver[1].kind = "fetch_all"
              /\ driver[1].sql = last.query

\* "  SeLeCt 1" is accepted and sent with its two leading spaces
GuardAcceptsSelectPrefixWitness ==
    /\ SelectCalled
    /\ last.query = <<" ", " ", "S", "e", "L", "e", "C", "t", " ", "1">>
    /\ driver # <<>>
    /\ driver[1].sql = <<" ", " ", "S", "e", "L", "e", "C", "t", " ", "1">>
    /\ last.result.ok

(***************************************************************************)
(* C15: a query the guard rejects returns, on both paths, the error        *)
(* InvalidArgument "Only SELECT queries are allowed", which no accepted    *)
(* call returns; the driver is not called and the table is unchanged.      *)
(***************************************************************************)
RejectedQueryStaysLocal ==
    SelectCalled =>
        /\ ~BeginsWithSelect(last.query) =>
              /\ ~last.result.ok
              /\ last.result.err = "InvalidArgument: Only SELECT queries are allowed"
              /\ driver = <<>>
              /\ table = last.before
        /\ \A j \in 1..Len(driver) :
              driver[j].result.err # "InvalidArgument: Only SELECT queries are allowed"

\* DELETE FROM users on the typed path, the table holding rows
RejectedQueryStaysLocalWitness ==
    /\ last.op = "execute_select_as_only"
    /\ last.query = <<"D", "E", "L", "E", "T", "E", " ", "F", "R", "O", "M", " ",
                      "u", "s", "e", "r", "s">>
    /\ ~last.result.ok
    /\ driver = <<>>
    /\ table # <<>>

(***************************************************************************)
(* C16: no query text that modifies data is passed to the driver by        *)
(* execute_select_only or execute_select_as_only: a call that reached the  *)
(* driver leaves the table as it was.                                      *)
(***************************************************************************)
NoModifyingQueryReachesDriver ==
    (SelectCalled /\ driver # <<>>) => table = last.before

(***************************************************************************)
(* C17: in execute_select_only every cell is the value of the first        *)
(* coercion that succeeds, tried in a fixed order, and the null marker     *)
(* when none succeeds (a NULL included).  As stated the order is integer,  *)
(* floating point, boolean, text, binary blob.                             *)
(***************************************************************************)
Decodes(T, cell) == cell.value # None /\ T \in Compatible(cell.ty)

\* the value of a cell under an order of attempts
FirstSuccess(order, cell) ==
    LET ok == {k \in 1..Len(order) : Decodes(order[k], cell)}
    IN IF ok = {} THEN JsonNull
       ELSE to_json(order[CHOOSE k \in ok : \A j \in ok : k <= j], cell.value)

CellsFollow(order) ==
    (last.op = "execute_select_only" /\ last.result.ok) =>
        LET rows == driver[1].result.value
        IN /\ Len(last.result.value) = Len(rows)
           /\ \A i \in 1..Len(rows) : \A j \in 1..Len(rows[i].columns) :
                 last.result.value[i][rows[i].columns[j]]
                    = FirstSuccess(order, rows[i].cells[j])

CoercionOrderAsStated ==
    CellsFollow(<<"i64", "f64", "bool", "String", "Vec<u8>">>)

\* the order of the code: a 32-bit integer is tried after the binary blob
CoercionOrder ==
    CellsFollow(<<"i64", "f64", "bool", "String", "Vec<u8>", "i32">>)

\* a 32-bit integer cell, which none of the first five attempts decodes
CoercionOrderWitness ==
    /\ last.op = "execute_select_only"
    /\ last.result.ok
    /\ Len(driver[1].result.value) = 1
    /\ driver[1].result.value[1].cells = <<Cell("INT4", "7")>>
    /\ last.result.value[1]["v"] = Json("number", "7")
    /\ Len(driver) = 7

(***************************************************************************)
(* C18: a driver error raised during one of the seven operations is        *)
(* returned to the caller as that same error, and it is the last call the  *)
(* operation makes to the driver.  As stated this covers every call to     *)
(* the driver, the decoding of a cell included.                            *)
(***************************************************************************)
Returned == last.op # None

\* the failing calls among those of the kinds given end the operation with
\* their error
ErrorsEndTheCall(kinds) ==
    \A j \in 1..Len(driver) :
        (driver[j].kind \in kinds /\ ~driver[j].result.ok) =>
            /\ j = Len(driver)
            /\ ~last.result.ok
            /\ last.result.err = driver[j].result.err

DriverErrorsReturnedAsStated ==
    Returned => ErrorsEndTheCall({"execute", "fetch_optional", "fetch_all", "try_get"})

\* the statement calls end the operation with their error; a cell that
\* does not decode in execute_select_only never fails the call
DriverErrorsReturned ==
    Returned =>
        /\ ErrorsEndTheCall({"execute", "fetch_optional", "fetch_all"})
        /\ (\E j \in 1..Len(driver) : driver[j].kind = "try_get") => last.result.ok

\* the typed path returns the decode failure of fetch_all
DriverErrorsReturnedWitness ==
    /\ last.op = "execute_select_as_only"
    /\ Len(driver) = 1
    /\ driver[1].result.err = "ColumnNotFound"
    /\ last.result = Err("ColumnNotFound")

(***************************************************************************)
(* C19: after any sequence of from_pool, clone and get_table, every table  *)
(* handle carries the database marker of the pool handle it was derived    *)
(* from and refers to the same underlying pool as that pool handle.        *)
(***************************************************************************)
TableHandles == {i \in 1..Len(handles) : handles[i].kind = "SqlTable"}

TableHandleKeepsMarkerAndPool ==
    \A i \in TableHandles :
        /\ handles[i].from \in 1..Len(handles)
        /\ handles[handles[i].from].kind = "SqlPool"
        /\ handles[i].DB = handles[handles[i].from].DB
        /\ handles[i].pool = handles[handles[i].from].pool

\* a table handle of a pool handle and one of its clone
TableHandleKeepsMarkerAndPoolWitness ==
    \E i, j \in TableHandles :
        /\ handles[handles[i].from].from = 0
        /\ handles[handles[j].from].from = handles[i].from
        /\ handles[i].DB = "UserDatabase"
        /\ handles[j].DB = "UserDatabase"
        /\ handles[i].Table = "User"
        /\ handles[j].Table = "LogEntry"
        /\ handles[i].pool = handles[j].pool

(***************************************************************************)
(* C20: a table handle can only be derived for a record type of the        *)
(* database of the pool handle: get_table::<LogEntry>() on a pool handle   *)
(* tagged UserDatabase is rejected, so no such handle exists.              *)
(***************************************************************************)
\* the database a record type belongs to
RecordDatabase(Table) ==
    IF Table = "User" THEN "UserDatabase" ELSE "LoggingDatabase"

TableHandleOfOwnDatabaseOnly ==
    \A i \in TableHandles : RecordDatabase(handles[i].Table) = handles[i].DB

(***************************************************************************)
(* C21: a clone and a derived table handle share the pool of the handle    *)
(* they were made from; after any sequence of from_pool, clone, get_table  *)
(* and drop, the pool behind every surviving handle is open, also when the *)
(* handle it was made from has been dropped, and a pool is torn down       *)
(* exactly when the last handle on it has been dropped.                    *)
(***************************************************************************)
HandlesOn(p) == {i \in 1..Len(handles) : handles[i].pool = p}

PoolLivesWithItsHandles ==
    /\ \A i \in 1..Len(handles) :
          handles[i].from # 0 =>
              /\ handles[i].from < i
              /\ handles[i].pool = handles[handles[i].from].pool
    /\ \A i \in Live : pools[handles[i].pool].state = "open"
    /\ \A p \in RawPools :
          /\ pools[p].strong = Cardinality(HandlesOn(p) \cap Live)
          /\ pools[p].state = "closed" <=>
                 (HandlesOn(p) # {} /\ HandlesOn(p) \subseteq dropped)
          /\ pools[p].state = "unconnected" <=> HandlesOn(p) = {}

\* a table handle outlives the pool handle it was derived from, and the
\* other pool has been torn down with its last handle
PoolLivesWithItsHandlesWitness ==
    \E i \in TableHandles \cap Live :
        /\ handles[i].from \in dropped
        /\ HandlesOn(handles[i].pool) \cap Live = {i}
        /\ pools[handles[i].pool].state = "open"
        /\ \E p \in RawPools : pools[p].state = "closed"

(***************************************************************************)
(* C22: from_pool, clone, get_table, pool, get_pool, as_ref and deref make *)
(* no driver call and do not fail; they leave the handle they are called   *)
(* on, every other handle and the rows of the database as they are; and    *)
(* pool, get_pool, as_ref and deref of the handles derived from one pool   *)
(* handle all return the underlying pool of that pool handle.              *)
(***************************************************************************)
RECURSIVE Root(_)
\* the from_pool handle a handle stems from
Root(i) == IF handles[i].from = 0 THEN i ELSE Root(handles[i].from)

AccessorOps == {"pool", "get_pool", "as_ref", "deref"}

HandleStateAtRest ==
    /\ driver = <<>>
    /\ table = SeedTable
    /\ last # NoCall =>
          /\ last.op \in AccessorOps
          /\ last.id \in 1..Len(handles)
          /\ last.result.ok
          /\ last.result.value = handles[Root(last.id)].pool
          /\ last.before = table

HandleStep ==
    /\ table' = table
    /\ driver' = <<>>
    /\ Len(handles') \in {Len(handles), Len(handles) + 1}
    /\ \A i \in 1..Len(handles) : handles'[i] = handles[i]
    /\ last' # NoCall => handles' = handles

HandleCallsAreLocal == []HandleStateAtRest /\ [][HandleStep]_vars

\* deref of a table handle derived from the clone of a pool handle, beside
\* a handle of the other pool
HandleCallsAreLocalWitness ==
    /\ last.op = "deref"
    /\ handles[last.id].kind = "SqlTable"
    /\ handles[handles[last.id].from].from # 0
    /\ Root(last.id) # handles[last.id].from
    /\ last.result.value = handles[Root(last.id)].pool
    /\ \E j \in 1..Len(handles) : handles[j].pool # last.result.value

(***************************************************************************)
(* C23: when id is the key of a row and update_by_id(id, entity) returns   *)
(* Ok, the table has as many rows as before and every row with another key *)
(* is as it was, and a get_by_id(id) that follows returns the record made  *)
(* of the non-key fields of entity and the key id, whatever the key field  *)
(* of entity holds.  A get_by_id that the pool itself failed is left       *)
(* aside.                                                                  *)
(***************************************************************************)
DeclaredKeyField == input.fields[DeclaredKeyIndex(input)].ident

UpdatedExistingRow ==
    /\ last.op = "update_by_id"
    /\ last.result.ok
    /\ RowsWithKey(last.before, last.id) # {}

UpdateKeepsOtherRows ==
    UpdatedExistingRow =>
        /\ Len(table) = Len(last.before)
        /\ \A i \in 1..Len(table) :
              last.before[i][DbKeyColumn] # last.id => table[i] = last.before[i]

GetAfterUpdate ==
    (/\ UpdatedExistingRow
     /\ last'.op = "get_by_id"
     /\ last'.id = last.id
     /\ ~last'.io) =>
        last'.result.err = None /\
        last'.result.value = Found([last.entity EXCEPT ![DeclaredKeyField] = last.id])

UpdateThenGetReturnsEntity == []UpdateKeepsOtherRows /\ [][GetAfterUpdate]_vars

(***************************************************************************)
(* C24: when insert(entity) returns Ok for an entity whose key is Some(id) *)
(* and no row had that key, a get_by_id(id) that follows returns a record  *)
(* equal to entity; when delete_by_id(id) returns Ok, every row with       *)
(* another key is as it was and a get_by_id(id) that follows returns       *)
(* Ok(None).  A get_by_id that the pool itself failed is left aside.       *)
(***************************************************************************)
InsertedEntity == last.entity

InsertedNewKey ==
    /\ last.op = "insert"
    /\ last.result.ok
    /\ InsertedEntity[DeclaredKeyField] # None
    /\ RowsWithKey(last.before, InsertedEntity[DeclaredKeyField]) = {}

Deleted == last.op = "delete_by_id" /\ last.result.ok

DeleteKeepsOtherRows ==
    Deleted =>
        table = FilterSeq(last.before,
                          {i \in 1..Len(last.before) :
                               last.before[i][DbKeyColumn] # last.id})

GetAfterInsertOrDelete ==
    (last'.op = "get_by_id" /\ ~last'.io) =>
        /\ (InsertedNewKey /\ last'.id = InsertedEntity[DeclaredKeyField]) =>
              (last'.result.err = None /\ last'.result.value = Found(InsertedEntity))
        /\ (Deleted /\ last'.id = last.id) =>
              (last'.result.err = None /\ last'.result.value = NotFound)

InsertDeleteThenGet == []DeleteKeepsOtherRows /\ [][GetAfterInsertOrDelete]_vars

(***************************************************************************)
(* C25: in execute_select_only a text cell whose content is a JSON value   *)
(* becomes that value and any other text cell stays the text.  As stated,  *)
(* a text of digits only always becomes a number; in the code it does when *)
(* the digits are a JSON number, which a numeral with a superfluous        *)
(* leading zero is not: that text stays a string.                          *)
(***************************************************************************)
\* the one-cell rows of text fetched by the latest execute_select_only
TextCellFetched ==
    /\ last.op = "execute_select_only"
    /\ last.result.ok
    /\ Len(driver[1].result.value) = 1
    /\ Len(driver[1].result.value[1].cells) = 1
    /\ driver[1].result.value[1].cells[1].ty = "TEXT"
    /\ driver[1].result.value[1].cells[1].value # None

FetchedText == driver[1].result.value[1].cells[1].value
ProjectedCell == last.result.value[1][driver[1].result.value[1].columns[1]]

OnlyDigits(t) == all_digits(chars(t))

TextCellOtherThanDigits ==
    /\ FetchedText = "true" => ProjectedCell = Json("bool", "true")
    /\ FetchedText = "null" => ProjectedCell = JsonNull
    /\ FetchedText = " 7" => ProjectedCell = Json("number", "7")
    /\ FetchedText = "\"a\"" => ProjectedCell = Json("string", "a")
    /\ FetchedText \in {"a", "b", "7a", "True", ""} =>
          ProjectedCell = Json("string", FetchedText)

TextCellParsedAsStated ==
    TextCellFetched =>
        /\ TextCellOtherThanDigits
        /\ OnlyDigits(FetchedText) => ProjectedCell = Json("number", FetchedText)

TextCellParsed ==
    TextCellFetched =>
        /\ TextCellOtherThanDigits
        /\ FetchedText \in {"7", "42"} => ProjectedCell = Json("number", FetchedText)
        /\ FetchedText = "007" => ProjectedCell = Json("string", "007")

TextCellParsedWitness ==
    /\ TextCellFetched
    /\ FetchedText = "007"
    /\ ProjectedCell = Json("string", "007")
    /\ Len(driver) = 5

(***************************************************************************)
(* C26: execute_select_only takes the column names from the first row the  *)
(* driver returned and gives one object per returned row, in the order of  *)
(* the rows, each with exactly those column names as keys and the cells of *)
(* its own row as values; every cell of every row is read under those      *)
(* names; when no row is returned the result is the empty list, not an     *)
(* error, and no cell is read.                                             *)
(***************************************************************************)
Projected == last.op = "execute_select_only" /\ last.result.ok

FetchedRows == driver[1].result.value

Names(columns) == {columns[j] : j \in 1..Len(columns)}

\* the first attempts of the coercion chain, one per cell read
CellReads == {k \in 2..Len(driver) : driver[k].binds = <<"i64">>}

OneObjectPerRow ==
    Projected =>
        /\ driver[1].kind = "fetch_all"
        /\ Len(last.result.value) = Len(FetchedRows)
        /\ \A i \in 1..Len(FetchedRows) :
              /\ DOMAIN last.result.value[i] = Names(FetchedRows[1].columns)
              /\ \A c \in Names(FetchedRows[1].columns) :
                    last.result.value[i][c] = json_value(FetchedRows[i], c)
        /\ \A k \in 2..Len(driver) :
              /\ driver[k].kind = "try_get"
              /\ driver[k].sql \in Names(FetchedRows[1].columns)
        /\ Cardinality(CellReads) =
              Len(FetchedRows) * (IF FetchedRows = <<>> THEN 0
                                  ELSE Len(FetchedRows[1].columns))
        /\ FetchedRows = <<>> => (last.result.value = <<>> /\ Len(driver) = 1)

\* two rows of two columns, returned in the order of the table
OneObjectPerRowWitness ==
    /\ Projected
    /\ Len(FetchedRows) = 2
    /\ Len(FetchedRows[1].columns) = 2
    /\ Len(last.result.value) = 2
    /\ last.result.value[1][DbKeyColumn] = Json("number", "1")
    /\ last.result.value[2][DbKeyColumn] = Json("number", "2")

(***************************************************************************)
(* C27: insert_batch does not isolate its rows.  Calls of other handles    *)
(* run between its statements, so a get_by_id of another handle can find   *)
(* the first row of a batch in progress while a later row is not there     *)
(* yet.  No row is lost: every row a statement of either of two concurrent *)
(* batches inserted stays in the table, a batch that returns Ok has all    *)
(* its rows in the table, and every turn of a batch brings it one entity   *)
(* closer to its return.                                                   *)
(***************************************************************************)
\* the rows the call in progress b has inserted are in the table
InsertedSoFar(b) ==
    b.active =>
        /\ Len(b.calls) = b.next - 1
        /\ \A j \in 1..Len(b.calls) :
              /\ b.calls[j].result.ok
              /\ EntityRow(b.entities[j]) \in Rows(table)

RowsOfBatchesPresent ==
    /\ InsertedSoFar(batch)
    /\ InsertedSoFar(other)
    /\ last.op = "insert_batch" =>
          /\ \A j \in 1..Len(driver) :
                driver[j].result.ok => EntityRow(last.entities[j]) \in Rows(table)
          /\ last.result.ok =>
                \A j \in 1..Len(last.entities) :
                    EntityRow(last.entities[j]) \in Rows(table)

\* a turn of a call in progress returns or moves to the next entity, so a
\* call on n entities returns within n + 1 turns
Advances(b, after) ==
    (b.active /\ after # b) =>
        \/ ~after.active
        \/ after.active /\ after.entities = b.entities /\ after.next = b.next + 1

NoRowLost ==
    /\ Rows(table) \subseteq Rows(table')
    /\ Advances(batch, batch')
    /\ Advances(other, other')

BatchNotIsolatedNoRowLost ==
    []RowsOfBatchesPresent /\ [][NoRowLost]_vars

\* beside a second batch in progress, a get_by_id finds the first row of a
\* batch of two whose second row is not in the table yet
BatchNotIsolatedNoRowLostWitness ==
    /\ batch.active
    /\ other.active
    /\ Len(batch.entities) = 2
    /\ batch.next = 2
    /\ other.entities # <<>>
    /\ last.op = "get_by_id"
    /\ last.result.ok
    /\ last.result.value = Found(batch.entities[1])
    /\ last.before = table
    /\ EntityRow(batch.entities[2]) \notin Rows(table)

(***************************************************************************)
(* C28: a field counts as marked primary key only if a crud attribute of   *)
(* it holds the primary_key flag; the values of rename play no part, so a  *)
(* field renamed "primary_key_ref" without the flag is not marked and is   *)
(* not selected as the marked key.                                         *)
(***************************************************************************)
MarkedOnlyByFlag ==
    Expanded =>
        /\ \A i \in 1..NumFields :
              has_primary_key_attr(input.fields[i].attrs) <=>
                  HasPrimaryKeyFlag(input.fields[i])
        /\ FirstMarked(input.fields) # 0 =>
              HasPrimaryKeyFlag(input.fields[FirstMarked(input.fields)])
        /\ (\A i \in 1..NumFields : ~HasPrimaryKeyFlag(input.fields[i])) =>
              gen.primary_key_field = input.fields[1].ident

(***************************************************************************)
(* C29: the db selector is compared exactly.  The value postgres, and no   *)
(* other, gives the PostgreSQL implementation with $1..$n placeholders;    *)
(* the value sqlite, and no other, gives the SQLite implementation; a      *)
(* missing selector and any other value (oracle, Postgres) expand without  *)
(* an error to what mysql expands to, with ? placeholders.                 *)
(***************************************************************************)
QuestionMarksOnly(g) ==
    /\ g.placeholders = [i \in 1..NumFields |-> "?"]
    /\ g.key_placeholder = "?"
    /\ g.update_key_placeholder = "?"
    /\ LET numbered == {PgPlaceholder(j) : j \in 1..(NumFields + 1)}
           texts == Statements(g)
       IN \A s \in 1..5 :
             LET text == texts[s]
             IN \A i \in 1..Len(text) : text[i] \notin numbered

SelectorMatchedExactly ==
    Expanded =>
        /\ gen.backend = "Postgres" <=> DeclaredDb(input) = "postgres"
        /\ gen.backend = "Sqlite" <=> DeclaredDb(input) = "sqlite"
        /\ gen.backend = "MySql" <=> DeclaredDb(input) \notin {"postgres", "sqlite"}
        /\ gen.backend = "Postgres" =>
              /\ gen.placeholders = [i \in 1..NumFields |-> PgPlaceholder(i)]
              /\ gen.key_placeholder = "$1"
        /\ gen.backend = "Sqlite" => QuestionMarksOnly(gen)
        /\ gen.backend = "MySql" =>
              /\ QuestionMarksOnly(gen)
              /\ gen = derive_crud_ops_ref(WithDb(input, "mysql"))

\* db = "Postgres" expanded as mysql
SelectorMatchedExactlyWitness ==
    /\ Expanded
    /\ DeclaredDb(input) = "Postgres"
    /\ gen.backend = "MySql"
    /\ NumFields = 2
    /\ insert_sql(gen)[8] = "?"

(***************************************************************************)
(* C30: for every accepted declaration the SET clause of the generated     *)
(* update_by_id statement holds at least one column assignment, also for a *)
(* record whose only field is its primary key.                             *)
(***************************************************************************)
SetClauseHasAssignment ==
    Expanded =>
        /\ Len(gen.non_pk_names) >= 1
        /\ gen.set_sql # <<>>
        /\ update_by_id_sql(gen)[3] = " SET "
        /\ update_by_id_sql(gen)[4] # " WHERE "

====
